---- MODULE Spec2Model ----
(***************************************************************************)
(* Seat reservation on Redis bitmaps: SeatService and SeatController of    *)
(* backend/src/seat.  One Redis string per row, one bit per seat.  Every   *)
(* awaited Redis command of a service method is one step; commands of      *)
(* different calls interleave freely, a Lua script (EVAL) runs as one      *)
(* step because Redis executes a script without interleaving.              *)
(***************************************************************************)
EXTENDS Integers, FiniteSets, Sequences, TLC

(* ---------------------------------------------------------------- sizes *)

\* Number of zones and rows per zone of the model.  The program has 50 and
\* 20 (seat.controller.ts:168-169); the model scales the inventory down.
ZONES == 1
ROWS_PER_ZONE == 2
\* Number of service / endpoint invocations in one behaviour.
NumCalls == 2

\* The zones and rows per zone of the program (const ZONES, ROWS_PER_ZONE).
VENUE_ZONES == 50
VENUE_ROWS_PER_ZONE == 20
SEATS_PER_ROW == 65
EVENT_ID == 1
\* count > 5 is refused by POST /reserve.
MAX_BLOCK == 5
\* generic-pool option max.
POOL_MAX == 20
\* Size of the pool where callers outnumber its clients.
SmallPool == 1
\* Redis BITFIELD accepts the unsigned types u1 .. u63 only; the script asks
\* for 'u'..seats_needed.
BITFIELD_MAX_UNSIGNED == 63

Calls == 1..NumCalls

Max(a, b) == IF a >= b THEN a ELSE b

(* ------------------------------------------------------- the Redis store *)

\* A string is the sequence of its characters.  A number in a template
\* literal is written in decimal, a negative one with a leading minus sign.
DigitChar(d) == <<"0", "1", "2", "3", "4", "5", "6", "7", "8", "9">>[d + 1]
RECURSIVE Digits(_)
Digits(n) == IF n < 10 THEN <<DigitChar(n)>> ELSE Digits(n \div 10) \o <<DigitChar(n % 10)>>
NumberToString(n) == IF n < 0 THEN <<"-">> \o Digits(0 - n) ELSE Digits(n)

\* A key template without the colon between zone and row.
seatKeyUnseparated(zone, row) ==
  <<"s", "e", "a", "t", "s", ":">> \o NumberToString(EVENT_ID) \o <<":">>
    \o NumberToString(zone) \o NumberToString(row)

\* `seats:${EVENT_ID}:${zone}:${row}`
seatKey(zone, row) ==
  <<"s", "e", "a", "t", "s", ":">> \o NumberToString(EVENT_ID) \o <<":">>
    \o NumberToString(zone) \o <<":">> \o NumberToString(row)

\* The keys of the valid rows, in the order of the nested zone / row loops.
RowKeys == {seatKey(z, r) : z \in 1..ZONES, r \in 1..ROWS_PER_ZONE}
KeyIndex(k) ==
  LET zr == CHOOSE p \in (1..ZONES) \X (1..ROWS_PER_ZONE) : seatKey(p[1], p[2]) = k
  IN (zr[1] - 1) * ROWS_PER_ZONE + zr[2]
KeyAt(i) == CHOOSE k \in RowKeys : KeyIndex(k) = i
NumKeys == ZONES * ROWS_PER_ZONE

\* A string value: its length in bytes and the offsets of its one-bits
\* (offset 0 is the most significant bit of byte 0).  len = 0: no such key.
Absent == [len |-> 0, bits |-> {}]

STRLEN(v) == v.len

\* SETBIT key offset value: grows the string to hold the offset, then sets or
\* clears the bit.
SETBIT(v, offset, value) ==
  [len  |-> Max(v.len, (offset \div 8) + 1),
   bits |-> IF value = 1 THEN v.bits \cup {offset} ELSE v.bits \ {offset}]

GETBIT(v, offset) == IF offset \in v.bits THEN 1 ELSE 0

\* The number of bytes of the value, not of its set bits.
ByteCount(v) == v.len

BITCOUNT(v) == Cardinality(v.bits)

\* BITFIELD key GET u<n> <offset>: the n-bit unsigned integer at the bit
\* offset, given by the positions (0 = most significant) of its one-bits;
\* bits past the end of the string read as 0.  The integer is 0 exactly when
\* the set is empty.
BitfieldTypeOk(n) == n >= 1 /\ n <= BITFIELD_MAX_UNSIGNED
BITFIELD_GET_U(v, n, offset) == {j \in 0..(n - 1) : (offset + j) \in v.bits}

(* --------------------------------------------------------- the Lua scripts *)

\* for j = lo, hi do redis.call('SETBIT', key, base + j, 1) end: the SETBITs
\* in ascending order of j (the range is halved to keep the evaluation shallow).
RECURSIVE SetLoop(_, _, _, _)
SetLoop(v, base, lo, hi) ==
  IF lo > hi THEN v
  ELSE IF lo = hi THEN SETBIT(v, base + lo, 1)
  ELSE LET mid == (lo + hi) \div 2
           lower == SetLoop(v, base, lo, mid)
       IN \* (the test makes TLC compute lower before the upper half)
          IF lower.len > 0 THEN SetLoop(lower, base, mid + 1, hi) ELSE lower

\* The loop `for i = lo, hi` of reserveScript up to its first `return i`: the
\* first offset i, in ascending order, whose BITFIELD GET u<seats_needed> is 0,
\* or -1 when the loop runs to its end.
RECURSIVE ScanLoop(_, _, _, _)
ScanLoop(v, seats_needed, lo, hi) ==
  IF lo > hi THEN 0 - 1
  ELSE IF lo = hi
    THEN (IF BITFIELD_GET_U(v, seats_needed, lo) = {} THEN lo ELSE 0 - 1)
    ELSE LET mid == (lo + hi) \div 2
             first == ScanLoop(v, seats_needed, lo, mid)
         IN IF first >= 0 THEN first ELSE ScanLoop(v, seats_needed, mid + 1, hi)

\* reserveScript.  A script result is [kind, val, value]: kind "ok" with the
\* returned number, or "throw" when a redis.call raised an error (the first
\* BITFIELD, when u<seats_needed> is no type); value is the string the script
\* leaves under the key.
reserveScript(v, seats_needed, seats_per_row) ==
  IF 0 > seats_per_row - seats_needed
    THEN [kind |-> "ok", val |-> 0 - 1, value |-> v]
    ELSE IF ~BitfieldTypeOk(seats_needed)
      THEN [kind |-> "throw", val |-> 0, value |-> v]
      ELSE LET i == ScanLoop(v, seats_needed, 0, seats_per_row - seats_needed) IN
             IF i >= 0
               THEN [kind |-> "ok", val |-> i,
                     value |-> SetLoop(v, i, 0, seats_needed - 1)]
               ELSE [kind |-> "ok", val |-> 0 - 1, value |-> v]

\* The first loop of reserveSpecificScript: TRUE when some GETBIT returns 1.
RECURSIVE TakenLoop(_, _, _, _)
TakenLoop(v, start_pos, lo, hi) ==
  IF lo > hi THEN FALSE
  ELSE IF lo = hi THEN GETBIT(v, start_pos + lo) = 1
  ELSE LET mid == (lo + hi) \div 2 IN
         TakenLoop(v, start_pos, lo, mid) \/ TakenLoop(v, start_pos, mid + 1, hi)

reserveSpecificScript(v, start_pos, count) ==
  IF TakenLoop(v, start_pos, 0, count - 1)
    THEN [kind |-> "ok", val |-> 0 - 1, value |-> v]
    ELSE [kind |-> "ok", val |-> start_pos,
          value |-> SetLoop(v, start_pos, 0, count - 1)]

(* ------------------------------------------------------------- the state *)

VARIABLES
  store,        \* Redis: key -> string value
  pc,           \* call -> the command the call issues next
  op,           \* call -> what was invoked, with its arguments
  held,         \* call -> it holds a pooled client
  curLenBytes,  \* call -> result of its STRLEN
  cursor,       \* call -> number of pipelined commands Redis has executed
  seatKeys,     \* call -> result of its KEYS
  totalOccupied,\* call -> sum of the BITCOUNT replies of its pipeline
  ret,          \* call -> what the service method returned or threw
  status,       \* call -> HTTP status the controller answered (0: none)
  invoked,      \* call -> the controller invoked the service
  responses,    \* call -> number of responses the controller sent
  \* history of the behaviour, read by the properties only
  epoch,        \* number of DEL commands executed so far
  epochAt,      \* call -> epoch when its script ran
  pre,          \* call -> value under its key when its script started
  setBy,        \* call -> <<key, offset>> bits its commands turned 0 -> 1
  clearedBy,    \* call -> <<key, offset>> bits its commands turned 1 -> 0
  disturbed,    \* call -> another call changed the store since it started
  errors,       \* call -> number of its commands Redis answered with an error
  occupiedAtStart, \* call -> occupied seats of all rows when its aggregate query started
  cmds,         \* call -> number of Redis commands it issued
  acquires,     \* call -> number of pool.acquire() it completed
  releases      \* call -> number of pool.release() it completed

locals == <<curLenBytes, cursor, seatKeys, totalOccupied>>
http == <<status, invoked, responses>>
pool == <<held, acquires, releases>>
history == <<epoch, epochAt, pre, setBy, clearedBy, disturbed, errors, occupiedAtStart>>
vars == <<store, pc, op, ret, cmds, locals, http, pool, history>>

NoOp == [name |-> "none", zone |-> 0, row |-> 0, start |-> 0, count |-> 0]
NoRet == [kind |-> "none", val |-> 0]
Returned(x) == [kind |-> "ok", val |-> x]
Thrown == [kind |-> "throw", val |-> 0]

\* No key exists: a Redis that was never written, or just cleared.
EmptyStore == [k \in RowKeys |-> Absent]

\* The state with Redis holding st and every call at p of invocation o.
InitState(st, o, p) ==
  /\ store = st
  /\ pc = [c \in Calls |-> p]
  /\ op = [c \in Calls |-> o]
  /\ held = [c \in Calls |-> FALSE]
  /\ curLenBytes = [c \in Calls |-> 0]
  /\ cursor = [c \in Calls |-> 0]
  /\ seatKeys = [c \in Calls |-> {}]
  /\ totalOccupied = [c \in Calls |-> 0]
  /\ ret = [c \in Calls |-> NoRet]
  /\ status = [c \in Calls |-> 0]
  /\ invoked = [c \in Calls |-> FALSE]
  /\ responses = [c \in Calls |-> 0]
  /\ epoch = 0
  /\ epochAt = [c \in Calls |-> 0]
  /\ pre = [c \in Calls |-> Absent]
  /\ setBy = [c \in Calls |-> {}]
  /\ clearedBy = [c \in Calls |-> {}]
  /\ disturbed = [c \in Calls |-> FALSE]
  /\ errors = [c \in Calls |-> 0]
  /\ occupiedAtStart = [c \in Calls |-> 0]
  /\ cmds = [c \in Calls |-> 0]
  /\ acquires = [c \in Calls |-> 0]
  /\ releases = [c \in Calls |-> 0]


(* --------------------------------------------------------------- helpers *)

Key(c) == seatKey(op[c].zone, op[c].row)

\* A check that forgets the row.
InvalidZoneOnly(zone, row) == zone < 1 \/ zone > ZONES

\* zone < 1 || zone > ZONES || row < 1 || row > ROWS_PER_ZONE
InvalidZoneOrRow(zone, row) ==
  zone < 1 \/ zone > ZONES \/ row < 1 \/ row > ROWS_PER_ZONE

\* A check of the start alone.
InvalidStartOnly(start, count) == start < 0

\* start < 0 || start + count > this.seatsPerRow
InvalidSeatRange(start, count) ==
  start < 0 \/ start + count > SEATS_PER_ROW

\* The guard of POST /reserve (!x is true of 0).
InvalidReserveInput(zone, row, count) ==
  \/ count = 0 \/ count < 1 \/ count > MAX_BLOCK
  \/ zone = 0 \/ zone < 1 \/ zone > ZONES
  \/ row = 0 \/ row < 1 \/ row > ROWS_PER_ZONE

\* The endpoints of SeatController and the SeatService method each awaits.
ServiceOf(name) ==
  CASE name = "reserveSeats" -> "reserveContiguousSeats"
    [] name = "initializeSeats" -> "initializeAllSeatTables"
    [] name = "SeatController.getRedisStats" -> "getRedisStats"
    [] name = "clearSeatData" -> "clearAllSeatData"
    [] name = "SeatController.getSeatOccupancy" -> "getSeatOccupancy"
    [] name = "checkAllSeatsAvailability" -> "checkAllSeatsUnavailable"
    [] OTHER -> name
IsEndpoint(name) == ServiceOf(name) # name

IsContiguous(c) == op[c].name \in {"reserveContiguousSeats", "reserveSeats"}
IsSpecific(c) == op[c].name = "reserveSpecificSeats"

BitsOf(st) == {<<k, b>> \in RowKeys \X (0..(8 * 9 - 1)) : b \in st[k].bits}

\* Call c's command is executed and leaves the store as newStore.
Command(c, newStore) ==
  /\ store' = newStore
  /\ UNCHANGED <<errors, occupiedAtStart>>
  /\ cmds' = [cmds EXCEPT ![c] = @ + 1]
  /\ setBy' = [setBy EXCEPT ![c] = @ \cup (BitsOf(newStore) \ BitsOf(store))]
  /\ clearedBy' = [clearedBy EXCEPT ![c] = @ \cup (BitsOf(store) \ BitsOf(newStore))]
  /\ disturbed' = [d \in Calls |->
                     IF d # c /\ pc[d] # "idle" /\ newStore # store
                       THEN TRUE ELSE disturbed[d]]

\* A call starts: what it does first once its arguments passed validation.
Start(c, o) ==
  /\ pc[c] = "idle"
  /\ op' = [op EXCEPT ![c] = o]
  /\ disturbed' = [disturbed EXCEPT ![c] = FALSE]
  /\ errors' = [errors EXCEPT ![c] = 0]
  /\ occupiedAtStart' = [occupiedAtStart EXCEPT ![c] =
                           IF ServiceOf(o.name) = "checkAllSeatsUnavailable"
                             THEN Cardinality(BitsOf(store)) ELSE 0]

\* throw new Error(...) before anything was acquired
Reject(c) ==
  /\ pc' = [pc EXCEPT ![c] = "done"]
  /\ ret' = [ret EXCEPT ![c] = Thrown]

(* -------------------------------------------- SeatService: reservations *)

\* reserveContiguousSeats(zone, row, count), up to `await redisPool.acquire()`
reserveContiguousSeats(c, zone, row, count) ==
  /\ Start(c, [name |-> "reserveContiguousSeats", zone |-> zone, row |-> row,
               start |-> 0, count |-> count])
  /\ IF InvalidZoneOrRow(zone, row)
       THEN Reject(c)
       ELSE pc' = [pc EXCEPT ![c] = "acquire"] /\ UNCHANGED ret
  /\ UNCHANGED <<store, cmds, locals, http, pool, epoch, epochAt, pre, setBy, clearedBy>>

\* reserveSpecificSeats(zone, row, start, count), up to the acquire
reserveSpecificSeats(c, zone, row, start, count) ==
  /\ Start(c, [name |-> "reserveSpecificSeats", zone |-> zone, row |-> row,
               start |-> start, count |-> count])
  /\ IF InvalidZoneOrRow(zone, row) \/ InvalidSeatRange(start, count)
       THEN Reject(c)
       ELSE pc' = [pc EXCEPT ![c] = "acquire"] /\ UNCHANGED ret
  /\ UNCHANGED <<store, cmds, locals, http, pool, epoch, epochAt, pre, setBy, clearedBy>>

\* What a method awaits first on its client.
FirstCommand(name) ==
  CASE ServiceOf(name) \in {"reserveContiguousSeats", "reserveSpecificSeats"} -> "strlen"
    [] ServiceOf(name) = "getSeatOccupancy" -> "bitcount"
    [] ServiceOf(name) = "initializeAllSeatTables" -> "pipeline"
    [] ServiceOf(name) = "checkAllSeatsUnavailable" -> "pipeline"
    [] ServiceOf(name) = "clearAllSeatData" -> "keys"
    [] ServiceOf(name) = "getRedisStats" -> "info"

\* await this.redisPool.acquire(): waits while max clients are borrowed
\* An acquire that is served only while a second client is free as well.
AcquireWithSpareFrom(c, max) ==
  /\ pc[c] = "acquire"
  /\ Cardinality({d \in Calls : held[d]}) + 1 < max
  /\ held' = [held EXCEPT ![c] = TRUE]
  /\ acquires' = [acquires EXCEPT ![c] = @ + 1]
  /\ pc' = [pc EXCEPT ![c] = FirstCommand(op[c].name)]
  /\ UNCHANGED <<store, op, ret, cmds, locals, http, releases, history>>

\* pool.acquire() of a pool of at most max clients: served while fewer than
\* max clients are lent out, pending otherwise.
AcquireFrom(c, max) ==
  /\ pc[c] = "acquire"
  /\ Cardinality({d \in Calls : held[d]}) < max
  /\ held' = [held EXCEPT ![c] = TRUE]
  /\ acquires' = [acquires EXCEPT ![c] = @ + 1]
  /\ pc' = [pc EXCEPT ![c] = FirstCommand(op[c].name)]
  /\ UNCHANGED <<store, op, ret, cmds, locals, http, releases, history>>

Acquire(c) == AcquireFrom(c, POOL_MAX)

\* const curLenBytes = await client.strlen(seatKey)
Strlen(c) ==
  /\ pc[c] = "strlen"
  /\ curLenBytes' = [curLenBytes EXCEPT ![c] = STRLEN(store[Key(c)])]
  /\ pc' = [pc EXCEPT ![c] =
              IF STRLEN(store[Key(c)]) * 8 < SEATS_PER_ROW THEN "setbit" ELSE "eval"]
  /\ Command(c, store)
  /\ UNCHANGED <<op, ret, cursor, seatKeys, totalOccupied, http, pool, epoch, epochAt, pre>>

\* await client.setbit(seatKey, this.seatsPerRow - 1, 0)
\* A sizing that writes 1 at the last seat.
EnsureSizeOne(c) ==
  /\ pc[c] = "setbit"
  /\ Command(c, [store EXCEPT ![Key(c)] = SETBIT(@, SEATS_PER_ROW - 1, 1)])
  /\ pc' = [pc EXCEPT ![c] = "eval"]
  /\ UNCHANGED <<op, ret, locals, http, pool, epoch, epochAt, pre>>

EnsureSize(c) ==
  /\ pc[c] = "setbit"
  /\ Command(c, [store EXCEPT ![Key(c)] = SETBIT(@, SEATS_PER_ROW - 1, 0)])
  /\ pc' = [pc EXCEPT ![c] = "eval"]
  /\ UNCHANGED <<op, ret, locals, http, pool, epoch, epochAt, pre>>

\* The script a reservation runs on its key.
Script(c) ==
  IF IsContiguous(c)
    THEN reserveScript(store[Key(c)], op[c].count, SEATS_PER_ROW)
    ELSE reserveSpecificScript(store[Key(c)], op[c].start, op[c].count)

\* The reads and writes of the script as two round trips instead of one
\* EVAL: the check with the first SETBIT, then the remaining SETBITs.
EvalTwoSteps(c) ==
  /\ pc[c] = "eval"
  /\ LET r == Script(c) IN
       IF cursor[c] = 0
         THEN /\ pre' = [pre EXCEPT ![c] = store[Key(c)]]
              /\ epochAt' = [epochAt EXCEPT ![c] = epoch]
              /\ ret' = [ret EXCEPT ![c] = [kind |-> r.kind, val |-> r.val]]
              /\ IF r.kind = "ok" /\ r.val >= 0 /\ op[c].count >= 2
                   THEN /\ Command(c, [store EXCEPT ![Key(c)] = SETBIT(@, r.val, 1)])
                        /\ cursor' = [cursor EXCEPT ![c] = 1]
                        /\ UNCHANGED pc
                   ELSE /\ Command(c, [store EXCEPT ![Key(c)] = r.value])
                        /\ pc' = [pc EXCEPT ![c] = "release"]
                        /\ UNCHANGED cursor
         ELSE /\ Command(c, [store EXCEPT ![Key(c)] = SetLoop(@, ret[c].val, 1, op[c].count - 1)])
              /\ pc' = [pc EXCEPT ![c] = "release"]
              /\ UNCHANGED <<pre, epochAt, ret, cursor>>
  /\ UNCHANGED <<op, curLenBytes, seatKeys, totalOccupied, http, pool, epoch>>

\* await client.eval(script, 1, seatKey, ...): the whole script, atomically
Eval(c) ==
  /\ pc[c] = "eval"
  /\ LET r == Script(c) IN
       /\ Command(c, [store EXCEPT ![Key(c)] = r.value])
       /\ ret' = [ret EXCEPT ![c] = [kind |-> r.kind, val |-> r.val]]
  /\ pre' = [pre EXCEPT ![c] = store[Key(c)]]
  /\ epochAt' = [epochAt EXCEPT ![c] = epoch]
  /\ pc' = [pc EXCEPT ![c] = "release"]
  /\ UNCHANGED <<op, locals, http, pool, epoch>>

\* The status an endpoint answers for what its service method returned or
\* threw: 200 for a result (POST /reserve: for a start index), 409 otherwise.
StatusOfResult(name, r) == IF r.kind = "ok" THEN 200 ELSE 409

StatusOf(name, r) ==
  IF name = "reserveSeats"
    THEN (IF r.kind = "ok" /\ r.val >= 0 THEN 200 ELSE 409)
    ELSE (IF r.kind = "ok" THEN 200 ELSE 409)

\* return res.status(code).json(...)
Respond(c, code) ==
  /\ status' = [status EXCEPT ![c] = code]
  /\ responses' = [responses EXCEPT ![c] = @ + 1]

\* A finally block that runs only when the try block completed normally.
ReleaseUnlessThrown(c) ==
  /\ pc[c] = "release"
  /\ IF ret[c].kind = "throw"
       THEN UNCHANGED <<held, releases>>
       ELSE /\ held' = [held EXCEPT ![c] = FALSE]
            /\ releases' = [releases EXCEPT ![c] = @ + 1]
  /\ pc' = [pc EXCEPT ![c] = "done"]
  /\ IF IsEndpoint(op[c].name)
       THEN Respond(c, StatusOf(op[c].name, ret[c]))
       ELSE UNCHANGED <<status, responses>>
  /\ UNCHANGED <<store, op, ret, cmds, locals, invoked, acquires, history>>

\* finally { await this.redisPool.release(client) }, then the return or throw
\* of the service method and, in an endpoint, the response for it.
\* acquireTimeoutMillis: an acquire still pending after 10 s is rejected, which
\* the method throws before its try block. An acquire is pending only while
\* all max clients are lent out.
AcquireTimeout(c, max) ==
  /\ pc[c] = "acquire"
  /\ Cardinality({d \in Calls : held[d]}) >= max
  /\ ret' = [ret EXCEPT ![c] = Thrown]
  /\ pc' = [pc EXCEPT ![c] = "done"]
  /\ IF IsEndpoint(op[c].name)
       THEN Respond(c, StatusOf(op[c].name, Thrown))
       ELSE UNCHANGED <<status, responses>>
  /\ UNCHANGED <<store, op, cmds, locals, invoked, pool, history>>

Release(c) ==
  /\ pc[c] = "release"
  /\ held' = [held EXCEPT ![c] = FALSE]
  /\ releases' = [releases EXCEPT ![c] = @ + 1]
  /\ pc' = [pc EXCEPT ![c] = "done"]
  /\ IF IsEndpoint(op[c].name)
       THEN Respond(c, StatusOf(op[c].name, ret[c]))
       ELSE UNCHANGED <<status, responses>>
  /\ UNCHANGED <<store, op, ret, cmds, locals, invoked, acquires, history>>

(* ------------------------------------------ SeatController: POST /reserve *)

\* reserveSeats(zone, row, count, res), up to the acquire inside
\* seatService.reserveContiguousSeats
reserveSeats(c, zone, row, count) ==
  /\ Start(c, [name |-> "reserveSeats", zone |-> zone, row |-> row,
               start |-> 0, count |-> count])
  /\ IF InvalidReserveInput(zone, row, count)
       THEN /\ pc' = [pc EXCEPT ![c] = "done"]
            /\ Respond(c, 409)
            /\ UNCHANGED <<ret, invoked>>
       ELSE /\ invoked' = [invoked EXCEPT ![c] = TRUE]
            /\ IF InvalidZoneOrRow(zone, row)
                 THEN Reject(c) /\ Respond(c, 409)
                 ELSE pc' = [pc EXCEPT ![c] = "acquire"] /\ UNCHANGED <<ret, status, responses>>
  /\ UNCHANGED <<store, cmds, locals, pool, epoch, epochAt, pre, setBy, clearedBy>>

(* ------------------------------------------------ SeatService: occupancy *)

\* getSeatOccupancy(zone, row), up to the acquire
getSeatOccupancy(c, zone, row) ==
  /\ Start(c, [name |-> "getSeatOccupancy", zone |-> zone, row |-> row,
               start |-> 0, count |-> 0])
  /\ IF InvalidZoneOrRow(zone, row)
       THEN Reject(c)
       ELSE pc' = [pc EXCEPT ![c] = "acquire"] /\ UNCHANGED ret
  /\ UNCHANGED <<store, cmds, locals, http, pool, epoch, epochAt, pre, setBy, clearedBy>>

\* const occupiedCount = await client.bitcount(seatKey); return {occupied, ...}
Bitcount(c) ==
  /\ pc[c] = "bitcount"
  /\ ret' = [ret EXCEPT ![c] = Returned(BITCOUNT(store[Key(c)]))]
  /\ Command(c, store)
  /\ pc' = [pc EXCEPT ![c] = "release"]
  /\ UNCHANGED <<op, locals, http, pool, epoch, epochAt, pre>>

\* A result with every seat of the row reported available.
OccupancyAllAvailable(occupiedCount) ==
  [occupied |-> occupiedCount, total |-> SEATS_PER_ROW, available |-> SEATS_PER_ROW]

\* The object getSeatOccupancy returns for the reply occupiedCount of BITCOUNT.
Occupancy(occupiedCount) ==
  [occupied |-> occupiedCount,
   total |-> SEATS_PER_ROW,
   available |-> SEATS_PER_ROW - occupiedCount]

\* checkAllSeatsUnavailable(), up to the acquire
checkAllSeatsUnavailable(c) ==
  /\ Start(c, [NoOp EXCEPT !.name = "checkAllSeatsUnavailable"])
  /\ pc' = [pc EXCEPT ![c] = "acquire"]
  /\ UNCHANGED <<store, ret, cmds, locals, http, pool, epoch, epochAt, pre, setBy, clearedBy>>

\* An assignment where the sum is meant.
AccumulateAssign(total, reply) == reply

\* totalOccupied += (result[1] as number) || 0, for a reply without error
Accumulate(total, reply) == total + reply

\* One pipelined BITCOUNT of pipeline.exec(): Redis runs the commands of a
\* pipeline in order, other clients' commands between them.  After the last
\* one the replies are summed and the result is returned.
PipelineBitcount(c) ==
  /\ pc[c] = "pipeline"
  /\ ServiceOf(op[c].name) = "checkAllSeatsUnavailable"
  /\ LET sum == Accumulate(totalOccupied[c], BITCOUNT(store[KeyAt(cursor[c] + 1)])) IN
       /\ totalOccupied' = [totalOccupied EXCEPT ![c] = sum]
       /\ IF cursor[c] + 1 = NumKeys
            THEN /\ ret' = [ret EXCEPT ![c] = Returned(sum)]
                 /\ pc' = [pc EXCEPT ![c] = "release"]
            ELSE UNCHANGED <<ret, pc>>
  /\ cursor' = [cursor EXCEPT ![c] = @ + 1]
  /\ Command(c, store)
  /\ UNCHANGED <<op, curLenBytes, seatKeys, http, pool, epoch, epochAt, pre>>

\* A result that reports the venue sold out as soon as a seat is occupied.
AvailabilityWhenAnyOccupied(occ) ==
  LET totalSeats == ZONES * ROWS_PER_ZONE * SEATS_PER_ROW IN
  [allUnavailable |-> (occ > 0),
   totalSeats |-> totalSeats,
   occupiedSeats |-> occ,
   availableSeats |-> totalSeats - occ,
   zonesChecked |-> ZONES,
   rowsChecked |-> ZONES * ROWS_PER_ZONE]

\* The object checkAllSeatsUnavailable returns for totalOccupied = occ.
Availability(occ) ==
  LET totalSeats == ZONES * ROWS_PER_ZONE * SEATS_PER_ROW IN
  [allUnavailable |-> (totalSeats - occ = 0),
   totalSeats |-> totalSeats,
   occupiedSeats |-> occ,
   availableSeats |-> totalSeats - occ,
   zonesChecked |-> ZONES,
   rowsChecked |-> ZONES * ROWS_PER_ZONE]

(* ------------------------------------------------ SeatService: lifecycle *)

\* initializeAllSeatTables(), up to the acquire
initializeAllSeatTables(c) ==
  /\ Start(c, [NoOp EXCEPT !.name = "initializeAllSeatTables"])
  /\ pc' = [pc EXCEPT ![c] = "acquire"]
  /\ UNCHANGED <<store, ret, cmds, locals, http, pool, epoch, epochAt, pre, setBy, clearedBy>>

\* A pipeline that writes 1 into the last seat of every row.
PipelineSetbitOne(c) ==
  /\ pc[c] = "pipeline"
  /\ ServiceOf(op[c].name) = "initializeAllSeatTables"
  /\ Command(c, [store EXCEPT ![KeyAt(cursor[c] + 1)] = SETBIT(@, SEATS_PER_ROW - 1, 1)])
  /\ cursor' = [cursor EXCEPT ![c] = @ + 1]
  /\ IF cursor[c] + 1 = NumKeys
       THEN /\ ret' = [ret EXCEPT ![c] = Returned(0)]
            /\ pc' = [pc EXCEPT ![c] = "release"]
       ELSE UNCHANGED <<ret, pc>>
  /\ UNCHANGED <<op, curLenBytes, seatKeys, totalOccupied, http, pool, epoch, epochAt, pre>>

\* One pipelined pipeline.setbit(seatKey, SEATS_PER_ROW - 1, 0)
PipelineSetbit(c) ==
  /\ pc[c] = "pipeline"
  /\ ServiceOf(op[c].name) = "initializeAllSeatTables"
  /\ Command(c, [store EXCEPT ![KeyAt(cursor[c] + 1)] = SETBIT(@, SEATS_PER_ROW - 1, 0)])
  /\ cursor' = [cursor EXCEPT ![c] = @ + 1]
  /\ IF cursor[c] + 1 = NumKeys
       THEN /\ ret' = [ret EXCEPT ![c] = Returned(0)]
            /\ pc' = [pc EXCEPT ![c] = "release"]
       ELSE UNCHANGED <<ret, pc>>
  /\ UNCHANGED <<op, curLenBytes, seatKeys, totalOccupied, http, pool, epoch, epochAt, pre>>

\* clearAllSeatData(), up to the acquire
clearAllSeatData(c) ==
  /\ Start(c, [NoOp EXCEPT !.name = "clearAllSeatData"])
  /\ pc' = [pc EXCEPT ![c] = "acquire"]
  /\ UNCHANGED <<store, ret, cmds, locals, http, pool, epoch, epochAt, pre, setBy, clearedBy>>

\* KEYS seats:1:* : the keys that exist
KEYS(st) == {k \in RowKeys : st[k].len > 0}

\* const seatKeys = await client.keys(seatKeyPattern)
Keys(c) ==
  /\ pc[c] = "keys"
  /\ seatKeys' = [seatKeys EXCEPT ![c] = KEYS(store)]
  /\ Command(c, store)
  /\ IF KEYS(store) # {}
       THEN pc' = [pc EXCEPT ![c] = "del"] /\ UNCHANGED ret
       ELSE /\ pc' = [pc EXCEPT ![c] = "release"]
            /\ ret' = [ret EXCEPT ![c] = Returned(0)]
  /\ UNCHANGED <<op, curLenBytes, cursor, totalOccupied, http, pool, epoch, epochAt, pre>>

\* await client.del(...seatKeys)
Del(c) ==
  /\ pc[c] = "del"
  /\ Command(c, [k \in RowKeys |-> IF k \in seatKeys[c] THEN Absent ELSE store[k]])
  /\ epoch' = epoch + 1
  /\ ret' = [ret EXCEPT ![c] = Returned(0)]
  /\ pc' = [pc EXCEPT ![c] = "release"]
  /\ UNCHANGED <<op, locals, http, pool, epochAt, pre>>

(* ---------------------------------------------------- SeatService: stats *)

\* getRedisStats(), up to the acquire
getRedisStats(c) ==
  /\ Start(c, [NoOp EXCEPT !.name = "getRedisStats"])
  /\ pc' = [pc EXCEPT ![c] = "acquire"]
  /\ UNCHANGED <<store, ret, cmds, locals, http, pool, epoch, epochAt, pre, setBy, clearedBy>>

\* const memoryInfo = await client.info('memory')
Info(c) ==
  /\ pc[c] = "info"
  /\ Command(c, store)
  /\ pc' = [pc EXCEPT ![c] = "dbsize"]
  /\ UNCHANGED <<op, ret, locals, http, pool, epoch, epochAt, pre>>

\* const totalKeys = await client.dbsize()
Dbsize(c) ==
  /\ pc[c] = "dbsize"
  /\ Command(c, store)
  /\ pc' = [pc EXCEPT ![c] = "statskeys"]
  /\ UNCHANGED <<op, ret, locals, http, pool, epoch, epochAt, pre>>

\* const seatKeys = await client.keys(seatKeyPattern); return {..., seatKeys:
\* seatKeys.length, ...}
StatsKeys(c) ==
  /\ pc[c] = "statskeys"
  /\ seatKeys' = [seatKeys EXCEPT ![c] = KEYS(store)]
  /\ Command(c, store)
  /\ ret' = [ret EXCEPT ![c] = Returned(Cardinality(KEYS(store)))]
  /\ pc' = [pc EXCEPT ![c] = "release"]
  /\ UNCHANGED <<op, curLenBytes, cursor, totalOccupied, http, pool, epoch, epochAt, pre>>

(* ------------------------------------------------------- failing commands *)

\* Call c's command is not executed: Redis answers it with an error or the
\* connection fails, and the store stays as it is.
Failure(c) ==
  /\ cmds' = [cmds EXCEPT ![c] = @ + 1]
  /\ errors' = [errors EXCEPT ![c] = @ + 1]
  /\ UNCHANGED <<store, setBy, clearedBy, disturbed, occupiedAtStart>>

\* An awaited command (strlen, setbit, eval, bitcount, keys, del, info,
\* dbsize) rejects: the method leaves its try block for the finally block
\* and throws.
CommandFails(c) ==
  /\ pc[c] \in {"strlen", "setbit", "eval", "bitcount", "keys", "del",
                "info", "dbsize", "statskeys"}
  /\ Failure(c)
  /\ ret' = [ret EXCEPT ![c] = Thrown]
  /\ pc' = [pc EXCEPT ![c] = "release"]
  /\ UNCHANGED <<op, locals, http, pool, epoch, epochAt, pre>>

\* Redis answers one command of a pipeline with an error: exec() resolves
\* with the pair [error, undefined] at its place.  initializeAllSeatTables
\* does not read the pairs; checkAllSeatsUnavailable skips the pairs with an
\* error when it sums.
PipelineReplyError(c) ==
  /\ pc[c] = "pipeline"
  /\ Failure(c)
  /\ cursor' = [cursor EXCEPT ![c] = @ + 1]
  /\ IF cursor[c] + 1 = NumKeys
       THEN /\ ret' = [ret EXCEPT ![c] =
                         IF ServiceOf(op[c].name) = "checkAllSeatsUnavailable"
                           THEN Returned(totalOccupied[c]) ELSE Returned(0)]
            /\ pc' = [pc EXCEPT ![c] = "release"]
       ELSE UNCHANGED <<ret, pc>>
  /\ UNCHANGED <<op, curLenBytes, seatKeys, totalOccupied, http, pool, epoch, epochAt, pre>>

(* ------------------------------------------ SeatController: the endpoints *)

\* An endpoint without arguments: it awaits its service method at once.
Endpoint(c, name) ==
  /\ Start(c, [NoOp EXCEPT !.name = name])
  /\ invoked' = [invoked EXCEPT ![c] = TRUE]
  /\ pc' = [pc EXCEPT ![c] = "acquire"]
  /\ UNCHANGED <<store, ret, cmds, locals, status, responses, pool,
                 epoch, epochAt, pre, setBy, clearedBy>>

\* POST /initialize
initializeSeats(c) == Endpoint(c, "initializeSeats")
\* GET /stats
SeatController_getRedisStats(c) == Endpoint(c, "SeatController.getRedisStats")
\* POST /clear
clearSeatData(c) == Endpoint(c, "clearSeatData")
\* GET /availability/check-all
checkAllSeatsAvailability(c) == Endpoint(c, "checkAllSeatsAvailability")

\* parseInt(string, 10): leading blanks, an optional sign, then the decimal
\* digits up to the first other character; NaN when there is no digit.
NaN == [nan |-> TRUE, val |-> 0]
Number(n) == [nan |-> FALSE, val |-> n]
isNaN(x) == x.nan
DigitChars == {"0", "1", "2", "3", "4", "5", "6", "7", "8", "9"}
DigitValue(ch) == CHOOSE d \in 0..9 : DigitChar(d) = ch
RECURSIVE SkipBlanks(_, _)
SkipBlanks(str, i) ==
  IF i <= Len(str) /\ str[i] = " " THEN SkipBlanks(str, i + 1) ELSE i
\* [val, next]: the value of the digits from position i on, and the position
\* after the last of them.
RECURSIVE ParseDigits(_, _, _)
ParseDigits(str, i, acc) ==
  IF i <= Len(str) /\ str[i] \in DigitChars
    THEN ParseDigits(str, i + 1, acc * 10 + DigitValue(str[i]))
    ELSE [val |-> acc, next |-> i]
parseInt(str) ==
  LET b == SkipBlanks(str, 1)
      signed == b <= Len(str) /\ str[b] \in {"-", "+"}
      first == IF signed THEN b + 1 ELSE b
      r == ParseDigits(str, first, 0)
  IN IF r.next = first THEN NaN
     ELSE Number(IF signed /\ str[b] = "-" THEN 0 - r.val ELSE r.val)

\* GET /occupancy/:zone/:row, up to the acquire inside
\* seatService.getSeatOccupancy
SeatController_getSeatOccupancy(c, zone, row) ==
  LET zoneNum == parseInt(zone)
      rowNum == parseInt(row)
  IN /\ Start(c, [name |-> "SeatController.getSeatOccupancy", zone |-> zoneNum.val,
                  row |-> rowNum.val, start |-> 0, count |-> 0])
     /\ IF \/ isNaN(zoneNum) \/ isNaN(rowNum)
           \/ zoneNum.val < 1 \/ zoneNum.val > ZONES
           \/ rowNum.val < 1 \/ rowNum.val > ROWS_PER_ZONE
          THEN /\ pc' = [pc EXCEPT ![c] = "done"]
               /\ Respond(c, 409)
               /\ UNCHANGED <<ret, invoked>>
          ELSE /\ invoked' = [invoked EXCEPT ![c] = TRUE]
               /\ IF InvalidZoneOrRow(zoneNum.val, rowNum.val)
                    THEN Reject(c) /\ Respond(c, 409)
                    ELSE pc' = [pc EXCEPT ![c] = "acquire"]
                         /\ UNCHANGED <<ret, status, responses>>
     /\ UNCHANGED <<store, cmds, locals, pool, epoch, epochAt, pre, setBy, clearedBy>>

(* ------------------------------------------------------- specifications *)

\* Nothing was called yet.
InitWith(st) == InitState(st, NoOp, "idle")

\* The store after initializeAllSeatTables ran on a Redis without keys.
FreshRow == SETBIT(Absent, SEATS_PER_ROW - 1, 0)
InitializedStore == [k \in RowKeys |-> FreshRow]

\* The rows the calls of a behaviour address: the first and the last one.
TargetRows == {<<1, 1>>, <<ZONES, ROWS_PER_ZONE>>}
\* Arguments of reserveContiguousSeats and of reserveSpecificSeats.
Counts == {1, 2, 33, 64, 65, 66}
Ranges == {<<64, 1>>, <<63, 2>>, <<0, 2>>, <<0, 0>>}

\* Every service method, on valid rows, from a Redis with or without keys.
Invoke(c) ==
  \/ \E zr \in TargetRows, n \in Counts : reserveContiguousSeats(c, zr[1], zr[2], n)
  \/ \E zr \in TargetRows, sc \in Ranges : reserveSpecificSeats(c, zr[1], zr[2], sc[1], sc[2])
  \/ \E zr \in TargetRows : getSeatOccupancy(c, zr[1], zr[2])
  \/ checkAllSeatsUnavailable(c)
  \/ initializeAllSeatTables(c)
  \/ clearAllSeatData(c)

Step(c) ==
  \/ Acquire(c)
  \/ Strlen(c)
  \/ EnsureSize(c)
  \/ Eval(c)
  \/ Bitcount(c)
  \/ PipelineBitcount(c)
  \/ PipelineSetbit(c)
  \/ Keys(c)
  \/ Del(c)
  \/ Release(c)

Init == \E st \in {EmptyStore, InitializedStore} : InitWith(st)

Next == \E c \in Calls : Invoke(c) \/ Step(c)

Spec == Init /\ [][Next]_vars

\* N calls of reserveContiguousSeats(zone, row, count) issued together on a
\* row without reservations: each has passed its check and awaits a client.
InitUniform ==
  \E st \in {EmptyStore, InitializedStore}, zr \in TargetRows, n \in Counts :
    InitState(st, [name |-> "reserveContiguousSeats", zone |-> zr[1], row |-> zr[2],
                   start |-> 0, count |-> n], "acquire")

StepUniform(c) ==
  \/ Acquire(c)
  \/ Strlen(c)
  \/ EnsureSize(c)
  \/ Eval(c)
  \/ Release(c)

NextUniform == \E c \in Calls : StepUniform(c)

SpecUniform == InitUniform /\ [][NextUniform]_vars

\* The store after initializeAllSeatTables and reserveContiguousSeats(1, 1, 2).
ReservedStore ==
  [InitializedStore EXCEPT ![seatKey(1, 1)] = reserveScript(@, 2, SEATS_PER_ROW).value]

\* Reservations of two seats with the two occupancy queries beside them.
InitQuery == \E st \in {EmptyStore, ReservedStore} : InitWith(st)

InvokeQuery(c) ==
  \/ \E zr \in TargetRows : reserveContiguousSeats(c, zr[1], zr[2], 2)
  \/ \E zr \in TargetRows : reserveSpecificSeats(c, zr[1], zr[2], 63, 2)
  \/ \E zr \in TargetRows : getSeatOccupancy(c, zr[1], zr[2])
  \/ checkAllSeatsUnavailable(c)

StepQuery(c) ==
  \/ Acquire(c)
  \/ Strlen(c)
  \/ EnsureSize(c)
  \/ Eval(c)
  \/ Bitcount(c)
  \/ PipelineBitcount(c)
  \/ Release(c)

NextQuery == \E c \in Calls : InvokeQuery(c) \/ StepQuery(c)

SpecQuery == InitQuery /\ [][NextQuery]_vars

\* Calls with coordinates, ranges and counts inside and outside their bounds.
Coords == {<<1, 1>>, <<0, 1>>, <<ZONES + 1, 1>>, <<1, 0>>, <<1, ROWS_PER_ZONE + 1>>}
TestRanges == {<<0 - 1, 1>>, <<SEATS_PER_ROW, 1>>, <<64, 2>>}
TestCounts == {0, MAX_BLOCK, MAX_BLOCK + 1}

InitValidation == \E st \in {EmptyStore, ReservedStore} : InitWith(st)

InvokeValidation(c) ==
  \/ \E zr \in Coords : reserveContiguousSeats(c, zr[1], zr[2], 1)
  \/ \E zr \in Coords : reserveSpecificSeats(c, zr[1], zr[2], 0, 1)
  \/ \E sc \in TestRanges : reserveSpecificSeats(c, 1, 1, sc[1], sc[2])
  \/ \E zr \in Coords : reserveSeats(c, zr[1], zr[2], 1)
  \/ \E n \in TestCounts : reserveSeats(c, 1, 1, n)
  \/ \E zr \in Coords : getSeatOccupancy(c, zr[1], zr[2])

StepValidation(c) ==
  \/ Acquire(c)
  \/ Strlen(c)
  \/ EnsureSize(c)
  \/ Eval(c)
  \/ Bitcount(c)
  \/ Release(c)

NextValidation == \E c \in Calls : InvokeValidation(c) \/ StepValidation(c)

SpecValidation == InitValidation /\ [][NextValidation]_vars

\* A row with every seat reserved, and one with the last two seats free.
FullRow == reserveSpecificScript(FreshRow, 0, SEATS_PER_ROW).value
AlmostFullRow == reserveSpecificScript(FreshRow, 0, SEATS_PER_ROW - 2).value
\* Every row is sold out but the last one, which has its last two seats free.
NearlySoldOutStore ==
  [k \in RowKeys |-> IF k = seatKey(ZONES, ROWS_PER_ZONE) THEN AlmostFullRow ELSE FullRow]

\* Path parameters of GET /occupancy/:zone/:row.
ZoneParams == {<<"1">>, <<"x">>}
RowParams == {NumberToString(ROWS_PER_ZONE), <<"1", "x">>, <<"0">>}
\* count of POST /reserve.
BodyCounts == {2, MAX_BLOCK + 1}

\* The endpoints of SeatController, with commands that may fail.
InitEndpoints == \E st \in {EmptyStore, NearlySoldOutStore} : InitWith(st)

InvokeEndpoints(c) ==
  \/ \E zr \in TargetRows, n \in BodyCounts : reserveSeats(c, zr[1], zr[2], n)
  \/ \E zone \in ZoneParams, row \in RowParams : SeatController_getSeatOccupancy(c, zone, row)
  \/ initializeSeats(c)
  \/ SeatController_getRedisStats(c)
  \/ clearSeatData(c)
  \/ checkAllSeatsAvailability(c)

StepEndpoints(c) ==
  \/ Acquire(c)
  \/ Strlen(c)
  \/ EnsureSize(c)
  \/ Eval(c)
  \/ Bitcount(c)
  \/ PipelineBitcount(c)
  \/ PipelineSetbit(c)
  \/ Keys(c)
  \/ Del(c)
  \/ Info(c)
  \/ Dbsize(c)
  \/ StatsKeys(c)
  \/ CommandFails(c)
  \/ PipelineReplyError(c)
  \/ Release(c)

NextEndpoints == \E c \in Calls : InvokeEndpoints(c) \/ StepEndpoints(c)

SpecEndpoints == InitEndpoints /\ [][NextEndpoints]_vars

\* clearAllSeatData alone on a store with reservations, and the calls that
\* follow its return.
InitReset == \E st \in {ReservedStore, NearlySoldOutStore} : InitWith(st)

Cleared == \E d \in Calls : op[d].name = "clearAllSeatData" /\ pc[d] = "done"

InvokeReset(c) ==
  \/ (\A d \in Calls : pc[d] = "idle") /\ clearAllSeatData(c)
  \/ Cleared /\ \E zr \in TargetRows, n \in Counts : reserveContiguousSeats(c, zr[1], zr[2], n)
  \/ Cleared /\ \E zr \in TargetRows : getSeatOccupancy(c, zr[1], zr[2])

StepReset(c) ==
  \/ Acquire(c)
  \/ Keys(c)
  \/ Del(c)
  \/ Strlen(c)
  \/ EnsureSize(c)
  \/ Eval(c)
  \/ Bitcount(c)
  \/ Release(c)

NextReset == \E c \in Calls : InvokeReset(c) \/ StepReset(c)

SpecReset == InitReset /\ [][NextReset]_vars

\* The last seats of the venue are reserved while checkAllSeatsUnavailable
\* counts; the same calls on a store without keys.
InitSoldOut == \E st \in {EmptyStore, NearlySoldOutStore} : InitWith(st)

InvokeSoldOut(c) ==
  \/ \E zr \in TargetRows : reserveContiguousSeats(c, zr[1], zr[2], 2)
  \/ \E zr \in TargetRows : reserveSpecificSeats(c, zr[1], zr[2], SEATS_PER_ROW - 2, 2)
  \/ checkAllSeatsUnavailable(c)

StepSoldOut(c) ==
  \/ Acquire(c)
  \/ Strlen(c)
  \/ EnsureSize(c)
  \/ Eval(c)
  \/ PipelineBitcount(c)
  \/ Release(c)

NextSoldOut == \E c \in Calls : InvokeSoldOut(c) \/ StepSoldOut(c)

SpecSoldOut == InitSoldOut /\ [][NextSoldOut]_vars

\* Reservations at the edges of their arguments, on the last row: counts of
\* no seat, of two seats and of more seats than the row has;
\* ranges of no seat, of a negative count, at and past the end of the row.
EdgeCounts == {0, 2, SEATS_PER_ROW + 1}
EdgeRanges == {<<SEATS_PER_ROW, 0>>, <<5, 0 - 3>>,
               <<SEATS_PER_ROW - 2, 2>>, <<SEATS_PER_ROW - 1, 2>>}

InitEdges == \E st \in {EmptyStore, ReservedStore} : InitWith(st)

InvokeEdges(c) ==
  \/ \E n \in EdgeCounts : reserveContiguousSeats(c, ZONES, ROWS_PER_ZONE, n)
  \/ \E sc \in EdgeRanges : reserveSpecificSeats(c, ZONES, ROWS_PER_ZONE, sc[1], sc[2])

StepEdges(c) ==
  \/ Acquire(c)
  \/ Strlen(c)
  \/ EnsureSize(c)
  \/ Eval(c)
  \/ Release(c)

NextEdges == \E c \in Calls : InvokeEdges(c) \/ StepEdges(c)

SpecEdges == InitEdges /\ [][NextEdges]_vars

\* Reservations beside the aggregate query, every row initialised.
InitAggregate == \E st \in {InitializedStore, ReservedStore} : InitWith(st)

InvokeAggregate(c) ==
  \/ \E zr \in TargetRows : reserveContiguousSeats(c, zr[1], zr[2], 2)
  \/ \E zr \in TargetRows : reserveSpecificSeats(c, zr[1], zr[2], SEATS_PER_ROW - 2, 2)
  \/ checkAllSeatsUnavailable(c)

StepAggregate(c) ==
  \/ Acquire(c)
  \/ Strlen(c)
  \/ Eval(c)
  \/ PipelineBitcount(c)
  \/ Release(c)

NextAggregate == \E c \in Calls : InvokeAggregate(c) \/ StepAggregate(c)

SpecAggregate == InitAggregate /\ [][NextAggregate]_vars

\* Every operation of the service on a pool of SmallPool clients, commands
\* failing or not. Redis answers every command, and generic-pool serves a
\* pending acquire when a client comes back or rejects it when its timeout
\* expires, so a call that can take a step takes one.
InitPool == \E st \in {EmptyStore, ReservedStore} : InitWith(st)

InvokePool(c) ==
  \/ reserveContiguousSeats(c, ZONES, ROWS_PER_ZONE, 2)
  \/ reserveSpecificSeats(c, ZONES, ROWS_PER_ZONE, SEATS_PER_ROW - 2, 2)
  \/ getSeatOccupancy(c, ZONES, ROWS_PER_ZONE)
  \/ checkAllSeatsUnavailable(c)
  \/ initializeAllSeatTables(c)
  \/ clearAllSeatData(c)
  \/ getRedisStats(c)

CommandPool(c) ==
  \/ Strlen(c)
  \/ EnsureSize(c)
  \/ Eval(c)
  \/ Bitcount(c)
  \/ PipelineBitcount(c)
  \/ PipelineSetbit(c)
  \/ Keys(c)
  \/ Del(c)
  \/ Info(c)
  \/ Dbsize(c)
  \/ StatsKeys(c)
  \/ CommandFails(c)
  \/ PipelineReplyError(c)

StepPool(c) ==
  \/ AcquireFrom(c, SmallPool)
  \/ AcquireTimeout(c, SmallPool)
  \/ CommandPool(c)
  \/ Release(c)

NextPool == \E c \in Calls : InvokePool(c) \/ StepPool(c)

SpecPool == InitPool /\ [][NextPool]_vars /\ \A c \in Calls : WF_vars(StepPool(c))

\* Reservations one after another, call c when the calls before it have
\* returned, on rows that initializeAllSeatTables created or that do not exist.
InitSequential == \E st \in {EmptyStore, InitializedStore} : InitWith(st)

InvokeSequential(c) ==
  /\ \A d \in Calls : IF d < c THEN pc[d] = "done" ELSE pc[d] = "idle"
  /\ \/ \E zr \in TargetRows, n \in Counts : reserveContiguousSeats(c, zr[1], zr[2], n)
     \/ \E zr \in TargetRows, sc \in Ranges :
          reserveSpecificSeats(c, zr[1], zr[2], sc[1], sc[2])

StepSequential(c) ==
  \/ Acquire(c)
  \/ Strlen(c)
  \/ EnsureSize(c)
  \/ Eval(c)
  \/ Release(c)

NextSequential == \E c \in Calls : InvokeSequential(c) \/ StepSequential(c)

SpecSequential == InitSequential /\ [][NextSequential]_vars

(* ------------------------------------------------------------ properties *)

IsReservation(c) == IsContiguous(c) \/ IsSpecific(c)
Finished(c) == pc[c] = "done"
\* The script of call c has run.
Ran(c) == pc[c] \in {"release", "done"} /\ acquires[c] > 0
\* The call returned a start index.
Succeeded(c) == IsReservation(c) /\ Finished(c) /\ ret[c].kind = "ok" /\ ret[c].val >= 0
NoCapacity(c) == IsReservation(c) /\ Finished(c) /\ ret[c] = Returned(0 - 1)
\* The seats [start, start + count) of a call that returned start.
Range(c) == {b \in 0..(SEATS_PER_ROW - 1) : ret[c].val <= b /\ b < ret[c].val + op[c].count}

RECURSIVE SumCounts(_)
SumCounts(S) ==
  IF S = {} THEN 0
  ELSE LET c == CHOOSE x \in S : TRUE IN op[c].count + SumCounts(S \ {c})

\* C1: two reservations on one row that both returned a start index, with no
\* DEL of clearAllSeatData between their scripts, hold disjoint seat ranges.
C1_NoDoubleBooking ==
  \A c, d \in Calls :
    (c # d /\ Succeeded(c) /\ Succeeded(d) /\ Key(c) = Key(d) /\ epochAt[c] = epochAt[d])
      => Range(c) \cap Range(d) = {}

\* All calls have finished and were reserveContiguousSeats of one count on one
\* row, asking together for more seats than the row has.
UniformContiguous ==
  /\ \A c \in Calls : Finished(c) /\ op[c].name = "reserveContiguousSeats"
  /\ \A c, d \in Calls : Key(c) = Key(d) /\ op[c].count = op[d].count
  /\ \A c \in Calls : op[c].count >= 1 /\ NumCalls * op[c].count > SEATS_PER_ROW

\* C2: N reserveContiguousSeats calls of one count on one row without
\* reservations, issued together, with N * count > S: once all have finished,
\* exactly S \div count returned a start index and the others -1.
C2_ExactlyFloorSucceed ==
  UniformContiguous =>
    /\ Cardinality({c \in Calls : Succeeded(c)}) = SEATS_PER_ROW \div op[1].count
    /\ \A c \in Calls : Succeeded(c) \/ NoCapacity(c)

\* C3: no command of initializeAllSeatTables turns a set bit of any row off.
C3_InitializeKeepsOccupiedBits ==
  \A c \in Calls : op[c].name = "initializeAllSeatTables" => clearedBy[c] = {}

\* C4: a reserveSpecificSeats whose script found a bit of [start, start+count)
\* set returns -1, and a reserveSpecificSeats that returns -1 has changed no
\* bit of the row, whatever ran concurrently.
C4_ConflictLeavesRowUnchanged ==
  \A c \in Calls :
    (IsSpecific(c) /\ Ran(c)) =>
      /\ (\E b \in 0..(op[c].count - 1) : (op[c].start + b) \in pre[c].bits)
           => ret[c] = Returned(0 - 1)
      /\ ret[c] = Returned(0 - 1) => (setBy[c] = {} /\ clearedBy[c] = {})

\* C5: when only reservations were called and all have returned, every row
\* holds as many set bits as the counts of the successful calls on it add up to.
C5_OccupancyIsSumOfCounts ==
  (\A c \in Calls : pc[c] = "idle" \/ (Finished(c) /\ IsReservation(c)))
    => \A k \in RowKeys :
         BITCOUNT(store[k]) = SumCounts({c \in Calls : Succeeded(c) /\ Key(c) = k})

\* C6: reserveContiguousSeats with 1 <= count <= S whose script runs on a row
\* that was created and never reserved returns 0.
C6_FreshRowReturnsZero ==
  \A c \in Calls :
    (IsContiguous(c) /\ Ran(c) /\ pre[c] = FreshRow
       /\ 1 <= op[c].count /\ op[c].count <= SEATS_PER_ROW)
      => ret[c] = Returned(0)

\* The start indexes of the free windows of count seats in a row value.
FreeWindows(v, count) ==
  {i \in 0..(SEATS_PER_ROW - count) : \A b \in i..(i + count - 1) : b \notin v.bits}
Least(S) == CHOOSE i \in S : \A j \in S : i <= j

\* C7: reserveContiguousSeats returns the least i in 0..S-count whose window
\* [i, i+count) was free when the script ran and changes exactly the bits of
\* that window; with no such i it returns -1, throws nothing and changes no bit.
C7_FirstFit ==
  \A c \in Calls :
    (IsContiguous(c) /\ Ran(c)) =>
      LET W == FreeWindows(pre[c], op[c].count) IN
        IF W # {}
          THEN /\ ret[c] = Returned(Least(W))
               /\ setBy[c] = {<<Key(c), b>> : b \in Least(W)..(Least(W) + op[c].count - 1)}
               /\ clearedBy[c] = {}
          ELSE ret[c] = Returned(0 - 1) /\ setBy[c] = {} /\ clearedBy[c] = {}

\* C8: in every state, and so for whatever another call reads, the bits a
\* reservation has set are none at all or the whole range [start, start+count)
\* it returns.
C8_AllOrNothing ==
  \A c \in Calls :
    IsReservation(c) =>
      \/ setBy[c] = {}
      \/ /\ ret[c].kind = "ok" /\ ret[c].val >= 0
         /\ setBy[c] = {<<Key(c), b>> : b \in ret[c].val..(ret[c].val + op[c].count - 1)}

\* The script of a reservation has set its two seats and the call has not
\* returned yet, while a getSeatOccupancy on its row has counted both seats.
C8_Witness ==
  \E c, d \in Calls :
    /\ IsReservation(c) /\ pc[c] = "release" /\ ret[c].kind = "ok" /\ ret[c].val >= 0
    /\ op[c].count = 2 /\ Cardinality(setBy[c]) = 2
    /\ op[d].name = "getSeatOccupancy" /\ Key(d) = Key(c) /\ Ran(d)
    /\ ret[d] = Returned(2)

RECURSIVE SumBits(_)
SumBits(K) ==
  IF K = {} THEN 0
  ELSE LET k == CHOOSE x \in K : TRUE IN Cardinality(store[k].bits) + SumBits(K \ {k})

\* The call ran to its answer and no other call changed the store meanwhile.
Quiescent(c) == Ran(c) /\ ~disturbed[c]

\* C9: with no change of the store since the query started, occupiedSeats of
\* checkAllSeatsUnavailable is the sum over all rows of the set bits, and
\* occupied of getSeatOccupancy is the number of set bits of its row: the
\* aggregate equals the sum of the row answers.
C9_AggregateIsSumOfRows ==
  \A c \in Calls :
    /\ (op[c].name = "checkAllSeatsUnavailable" /\ Quiescent(c))
         => Availability(ret[c].val).occupiedSeats = SumBits(RowKeys)
    /\ (op[c].name = "getSeatOccupancy" /\ Quiescent(c))
         => ret[c].val = Cardinality(store[Key(c)].bits)

\* Both queries answered, undisturbed, on a store with occupied seats in both
\* target rows.
C9_Witness ==
  \E c, d \in Calls :
    /\ op[c].name = "checkAllSeatsUnavailable" /\ Finished(c) /\ ~disturbed[c]
    /\ op[d].name = "getSeatOccupancy" /\ Finished(d) /\ ~disturbed[d]
    /\ ret[d].val = 2 /\ ret[c].val = 2

\* Invalid coordinates, an invalid seat range, and a call that finished without
\* touching the pool or the store.
OutOfRange(c) == op[c].zone \notin 1..ZONES \/ op[c].row \notin 1..ROWS_PER_ZONE
OutsideRow(c) == op[c].start < 0 \/ op[c].start + op[c].count > SEATS_PER_ROW
NeverReachedStore(c) ==
  /\ Finished(c) /\ acquires[c] = 0 /\ ~held[c] /\ cmds[c] = 0
  /\ setBy[c] = {} /\ clearedBy[c] = {}

\* C10: a service call with zone outside 1..ZONES or row outside
\* 1..ROWS_PER_ZONE, and a reserveSpecificSeats with start < 0 or
\* start + count > S, throws without having acquired a client, issued a command
\* or changed a bit; POST /reserve with zone, row or count out of bounds
\* answers 409 without invoking the service.
C10_ValidationBeforeStore ==
  \A c \in Calls :
    /\ (op[c].name \in {"reserveContiguousSeats", "reserveSpecificSeats", "getSeatOccupancy"}
          /\ OutOfRange(c))
         => (NeverReachedStore(c) /\ ret[c] = Thrown)
    /\ (op[c].name = "reserveSpecificSeats" /\ OutsideRow(c))
         => (NeverReachedStore(c) /\ ret[c] = Thrown)
    /\ (op[c].name = "reserveSeats"
          /\ (OutOfRange(c) \/ op[c].count \notin 1..MAX_BLOCK))
         => (NeverReachedStore(c) /\ ~invoked[c] /\ status[c] = 409)

\* On a store with occupied seats, a reserveSpecificSeats past the end of the
\* row and a POST /reserve with count 6 were both rejected.
C10_Witness ==
  \E c, d \in Calls :
    /\ op[c].name = "reserveSpecificSeats" /\ ~OutOfRange(c)
    /\ op[c].start = 64 /\ op[c].count = 2 /\ ret[c] = Thrown
    /\ op[d].name = "reserveSeats" /\ ~OutOfRange(d) /\ op[d].count = MAX_BLOCK + 1
    /\ status[d] = 409
    /\ SumBits(RowKeys) > 0

\* The commands one run of a service method issues at most.
CommandsOf(name) ==
  CASE ServiceOf(name) \in {"reserveContiguousSeats", "reserveSpecificSeats"} -> 3
    [] ServiceOf(name) \in {"initializeAllSeatTables", "checkAllSeatsUnavailable"} -> NumKeys
    [] ServiceOf(name) = "getSeatOccupancy" -> 1
    [] ServiceOf(name) = "clearAllSeatData" -> 2
    [] ServiceOf(name) = "getRedisStats" -> 3
    [] OTHER -> 0

\* C11: a service method one of whose commands Redis answered with an error
\* throws instead of returning a result, and issues no command twice.
C11_StoreFailuresSurface ==
  \A c \in Calls :
    /\ (Ran(c) /\ errors[c] > 0) => ret[c] = Thrown
    /\ cmds[c] <= CommandsOf(op[c].name)

\* C12: a call acquires a pooled client at most once, holds it exactly between
\* its acquire and its release, and has released it exactly once when it is
\* over, whether it returned or threw; with no call running no client is held.
C12_ReleasedOnEveryExit ==
  /\ \A c \in Calls :
       /\ acquires[c] <= 1 /\ releases[c] <= acquires[c]
       /\ held[c] <=> (acquires[c] = releases[c] + 1)
       /\ (Finished(c) /\ acquires[c] > 0) => (releases[c] = 1 /\ ~held[c])
  /\ (\A c \in Calls : pc[c] \in {"idle", "done"}) => (\A c \in Calls : ~held[c])

\* Both calls are over: one threw on a failed command, the other returned -1,
\* and each has released its client.
C12_Witness ==
  \E c, d \in Calls :
    /\ Finished(c) /\ ret[c] = Thrown /\ errors[c] > 0 /\ releases[c] = 1
    /\ Finished(d) /\ IsContiguous(d) /\ ret[d] = Returned(0 - 1) /\ releases[d] = 1

\* The body of a POST /reserve is outside the bounds of the endpoint.
InvalidBody(c) == OutOfRange(c) \/ op[c].count \notin 1..MAX_BLOCK

C14_ResetClearsEveryRow ==
  \A c \in Calls :
    (op[c].name = "clearAllSeatData" /\ Finished(c)) =>
      /\ (\A d \in Calls \ {c} : pc[d] = "idle") => store = EmptyStore
      /\ \A d \in Calls \ {c} :
           /\ (op[d].name = "getSeatOccupancy" /\ Ran(d) /\ ~disturbed[d])
                => ret[d] = Returned(0)
           /\ (op[d].name = "reserveContiguousSeats" /\ Ran(d) /\ ~disturbed[d]
                 /\ op[d].count \in 1..SEATS_PER_ROW)
                => ret[d] = Returned(0)

\* The result of a getSeatOccupancy is within the row.
OccupancyInRange ==
  \A c \in Calls :
    (op[c].name = "getSeatOccupancy" /\ Ran(c) /\ ret[c].kind = "ok") =>
      LET o == Occupancy(ret[c].val) IN
        /\ o.total = SEATS_PER_ROW
        /\ o.available = SEATS_PER_ROW - o.occupied
        /\ o.occupied \in 0..SEATS_PER_ROW
        /\ o.available \in 0..SEATS_PER_ROW
\* The BITCOUNT of a getSeatOccupancy answers the number of bits that are set
\* in the row when it is executed, 0 for a key that does not exist.
OccupancyIsSnapshot ==
  \A c \in Calls :
    (op[c].name = "getSeatOccupancy" /\ pc[c] = "bitcount" /\ pc'[c] = "release"
       /\ ret'[c].kind = "ok") =>
      /\ Occupancy(ret'[c].val).occupied = Cardinality(store[Key(c)].bits)
      /\ store[Key(c)].len = 0 => Occupancy(ret'[c].val).occupied = 0

\* C15: getSeatOccupancy returns total = S, occupied = the number of set bits
\* of the row at the instant of its BITCOUNT (0 for a row without key) and
\* available = S - occupied, with occupied and available in 0..S.
C15_RowOccupancy == []OccupancyInRange /\ [][OccupancyIsSnapshot]_vars

\* A getSeatOccupancy returned 2 for the row in which a reservation, made on
\* a store without keys, had set two seats.
C15_Witness ==
  \E c, d \in Calls :
    /\ op[c].name = "getSeatOccupancy" /\ Finished(c) /\ ret[c] = Returned(2)
    /\ IsReservation(d) /\ Succeeded(d) /\ Key(d) = Key(c)
    /\ \E k \in RowKeys : store[k].len = 0

\* C16: while only reservations and occupancy queries run, no step turns a set
\* bit of any row off.
C16_AllocationIrreversible ==
  [][\A k \in RowKeys : store[k].bits \subseteq store'[k].bits]_vars

\* The methods that only read, and those that are no allocator.
IsRead(c) ==
  ServiceOf(op[c].name) \in {"getSeatOccupancy", "checkAllSeatsUnavailable", "getRedisStats"}
IsNoAllocator(c) ==
  IsRead(c) \/ ServiceOf(op[c].name) \in {"initializeAllSeatTables", "clearAllSeatData"}
\* A step of a reading call leaves every key and every bit as it was.
ReadsChangeNothing ==
  \A c \in Calls : (IsRead(c) /\ cmds'[c] # cmds[c]) => store' = store

\* C17: initializeAllSeatTables, clearAllSeatData, getSeatOccupancy,
\* checkAllSeatsUnavailable and getRedisStats turn no bit from 0 to 1, and
\* the three reading methods change no bit and no key.
C17_OnlyAllocatorsSetBits ==
  /\ [](\A c \in Calls : IsNoAllocator(c) => setBy[c] = {})
  /\ [](\A c \in Calls : IsRead(c) => clearedBy[c] = {})
  /\ [][ReadsChangeNothing]_vars

\* initializeAllSeatTables has created the keys of a store that had none and
\* getRedisStats has counted them.
C17_Witness ==
  \E c, d \in Calls :
    /\ ServiceOf(op[c].name) = "initializeAllSeatTables" /\ Finished(c)
    /\ ret[c] = Returned(0) /\ errors[c] = 0
    /\ ServiceOf(op[d].name) = "getRedisStats" /\ Finished(d)
    /\ ret[d] = Returned(NumKeys)
    /\ store = InitializedStore

\* The keys of all rows of the program's 50 zones of 20 rows.
VenueKeys == {seatKey(z, r) : z \in 1..VENUE_ZONES, r \in 1..VENUE_ROWS_PER_ZONE}

\* C18: distinct valid (zone, row) pairs have distinct keys, and every bit a
\* reserveContiguousSeats or reserveSpecificSeats call has set or cleared
\* lies in the row of the call, whatever runs on the other rows.
C18_RowsIndependent ==
  /\ Cardinality(VenueKeys) = VENUE_ZONES * VENUE_ROWS_PER_ZONE
  /\ \A c \in Calls :
       IsReservation(c) => \A kb \in setBy[c] \cup clearedBy[c] : kb[1] = Key(c)

\* Two reservations on different rows have both returned a start index, and
\* each row holds the two seats of its reservation only.
C18_Witness ==
  \E c, d \in Calls :
    /\ Succeeded(c) /\ Succeeded(d) /\ Key(c) # Key(d)
    /\ Cardinality(setBy[c]) = 2 /\ Cardinality(setBy[d]) = 2
    /\ store[Key(c)].bits = {kb[2] : kb \in setBy[c]}
    /\ store[Key(d)].bits = {kb[2] : kb \in setBy[d]}

\* C19: every row key that exists holds a string of at least S bits.
C19_RowsFullySized ==
  \A k \in RowKeys : store[k].len > 0 => store[k].len * 8 >= SEATS_PER_ROW

\* C20: every result of checkAllSeatsUnavailable has totalSeats = Z * R * S,
\* zonesChecked = Z, rowsChecked = Z * R, availableSeats = totalSeats -
\* occupiedSeats, occupiedSeats in 0..totalSeats, and allUnavailable exactly
\* when availableSeats = 0, whatever reservations ran beside it.
C20_AggregateResultShape ==
  \A c \in Calls :
    (op[c].name = "checkAllSeatsUnavailable" /\ Ran(c) /\ ret[c].kind = "ok") =>
      LET a == Availability(ret[c].val) IN
        /\ a.totalSeats = Cardinality(RowKeys) * SEATS_PER_ROW
        /\ a.zonesChecked = Cardinality(1..ZONES)
        /\ a.rowsChecked = Cardinality(RowKeys)
        /\ a.availableSeats = a.totalSeats - a.occupiedSeats
        /\ a.occupiedSeats \in 0..a.totalSeats
        /\ a.allUnavailable <=> (a.availableSeats = 0)

\* A checkAllSeatsUnavailable reported the venue sold out: the reservation of
\* the last two seats ran while it was counting.
C20_Witness ==
  \E c, d \in Calls :
    /\ op[c].name = "checkAllSeatsUnavailable" /\ Finished(c) /\ disturbed[c]
    /\ Availability(ret[c].val).allUnavailable
    /\ Succeeded(d) /\ ret[d].val = SEATS_PER_ROW - 2

\* No bit at a position >= S is set in any row.
NoBitPastRow == \A k \in RowKeys : \A b \in store[k].bits : b < SEATS_PER_ROW

\* C21 as stated: a reservation that returned a start index i has 0 <= i,
\* count >= 1 and i + count <= S, and no bit at a position >= S is set.
C21_NonEmptyRangeInsideRow ==
  /\ \A c \in Calls :
       Succeeded(c) =>
         (0 <= ret[c].val /\ op[c].count >= 1 /\ ret[c].val + op[c].count <= SEATS_PER_ROW)
  /\ NoBitPastRow

\* C21, amended: a reservation that returned a start index i has 0 <= i and
\* i + count <= S; count >= 1 holds for reserveContiguousSeats, while
\* reserveSpecificSeats returns its start also for a count of 0 or less and
\* then sets no bit; no bit at a position >= S is set.
C21_RangeInsideRow ==
  /\ \A c \in Calls :
       Succeeded(c) =>
         /\ 0 <= ret[c].val /\ ret[c].val + op[c].count <= SEATS_PER_ROW
         /\ IsContiguous(c) => op[c].count >= 1
         /\ (IsSpecific(c) /\ op[c].count < 1) => (ret[c].val = op[c].start /\ setBy[c] = {})
  /\ NoBitPastRow

\* A reserveSpecificSeats of no seat returned its start, and a
\* reserveContiguousSeats of two seats returned a start index.
C21_Witness ==
  \E c, d \in Calls :
    /\ IsSpecific(c) /\ Succeeded(c) /\ op[c].count = 0 /\ ret[c].val = SEATS_PER_ROW
    /\ IsContiguous(d) /\ Succeeded(d) /\ op[d].count = 2

\* The occupied seats of all rows.
OccupiedSeats(st) == Cardinality(BitsOf(st))

\* The step in which a checkAllSeatsUnavailable returns: its occupiedSeats is
\* at least the occupied seats when it started and at most those now.
ReturnsBetween ==
  \A c \in Calls :
    (op[c].name = "checkAllSeatsUnavailable" /\ pc[c] = "release" /\ pc'[c] = "done"
       /\ ret[c].kind = "ok") =>
      /\ occupiedAtStart[c] <= Availability(ret[c].val).occupiedSeats
      /\ Availability(ret[c].val).occupiedSeats <= OccupiedSeats(store')

\* C22: with all rows initialised and only reservations running beside it, the
\* occupiedSeats returned by checkAllSeatsUnavailable lies between the number
\* of occupied seats of the inventory when the query started and that number
\* when it returned.
C22_AggregateBetweenStartAndReturn == [][ReturnsBetween]_vars

\* A checkAllSeatsUnavailable is about to return the count of its start, two
\* seats that were occupied then, while a reservation made behind its scan
\* has raised the count of the inventory.
C22_Witness ==
  \E c \in Calls :
    /\ op[c].name = "checkAllSeatsUnavailable" /\ pc[c] = "release" /\ ret[c].kind = "ok"
    /\ occupiedAtStart[c] = 2 /\ ret[c].val = 2
    /\ OccupiedSeats(store) = 4

\* A call holds one pooled client at most, and none while it waits for one;
\* the pool lends out SmallPool clients at most.
HoldsAtMostOne ==
  /\ \A c \in Calls :
       /\ acquires[c] - releases[c] = (IF held[c] THEN 1 ELSE 0)
       /\ pc[c] = "acquire" => ~held[c]
  /\ Cardinality({c \in Calls : held[c]}) <= SmallPool

\* The acquire of the call was rejected by the timeout of the pool: it threw
\* without a client, and not for its arguments, which are valid in SpecPool.
AcquireTimedOut(c) ==
  pc[c] = "done" /\ ret[c] = Thrown /\ acquires[c] = 0 /\ op[c].name # NoOp.name

\* C23 as stated: an operation holds at most one pooled session and waits for
\* none while holding one, so on a pool of bounded size, with commands that
\* always return, every pending acquire is eventually served and every
\* started operation eventually completes.
C23_EveryAcquireServed ==
  /\ []HoldsAtMostOne
  /\ \A c \in Calls : (pc[c] = "acquire") ~> held[c]
  /\ \A c \in Calls : (pc[c] # "idle") ~> (pc[c] = "done")

\* C23, amended: an operation holds at most one pooled session and waits for
\* none while holding one; every pending acquire is eventually served or
\* rejected by the acquire timeout of the pool, and every started operation
\* eventually completes.
C23_NoDeadlockOnPool ==
  /\ []HoldsAtMostOne
  /\ \A c \in Calls : (pc[c] = "acquire") ~> (held[c] \/ AcquireTimedOut(c))
  /\ \A c \in Calls : (pc[c] # "idle") ~> (pc[c] = "done")

\* The acquire of a call was rejected while the other call, served before it,
\* was still issuing its commands on the only client of the pool.
C23_Witness ==
  \E c, d \in Calls :
    /\ AcquireTimedOut(c)
    /\ held[d] /\ cmds[d] > 0 /\ pc[d] # "release"
    /\ Cardinality({e \in Calls : held[e]}) = SmallPool

\* What a reservation with arguments o returns and leaves on a store st whose
\* rows exist: the outcome of its script on the row.
OnInitialized(st, o) ==
  LET v == st[seatKey(o.zone, o.row)]
      r == IF o.name = "reserveContiguousSeats"
             THEN reserveScript(v, o.count, SEATS_PER_ROW)
             ELSE reserveSpecificScript(v, o.start, o.count)
  IN [ret |-> [kind |-> r.kind, val |-> r.val],
      store |-> [st EXCEPT ![seatKey(o.zone, o.row)] = r.value]]

\* The store after the first n calls, had initializeAllSeatTables run before
\* them.
RECURSIVE StoreAfterInitialized(_)
StoreAfterInitialized(n) ==
  IF n = 0
    THEN InitializedStore
    ELSE OnInitialized(StoreAfterInitialized(n - 1), op[n]).store

\* The calls that have returned, the first NumDone of the sequence.
NumDone == Cardinality({c \in Calls : Finished(c)})

\* C24: in sequential use lazy row creation is equivalent to explicit
\* initialisation: each reservation of the sequence returns, and the sequence
\* leaves in the seat bits of every row, what it does when
\* initializeAllSeatTables created the rows beforehand, whether the rows
\* existed or not when the first call ran.
C24_LazyEqualsInitialized ==
  /\ \A c \in Calls :
       Finished(c) => ret[c] = OnInitialized(StoreAfterInitialized(c - 1), op[c]).ret
  /\ (\A c \in Calls : pc[c] \in {"idle", "done"}) =>
       \A k \in RowKeys : store[k].bits = StoreAfterInitialized(NumDone)[k].bits

\* Two reservations returned start indices in the same row, which the first
\* created (STRLEN, SETBIT, EVAL) and the second found (STRLEN, EVAL).
C24_Witness ==
  /\ NumCalls >= 2
  /\ Succeeded(1) /\ Succeeded(2) /\ Key(1) = Key(2)
  /\ cmds[1] = 3 /\ cmds[2] = 2
  /\ ret[2].val > 0

====
